---- MODULE Spec2Model ----
(***************************************************************************)
(* A model of selfextract: the self-image reader (readSelf), the builder    *)
(* (create), the extraction engine over an extraction directory            *)
(* (prepareExtractDir, cleanupDir, extract, createKeyFile) and the         *)
(* lifecycle controller (setupSignals, startup, the exit-code channel,     *)
(* cleanup).                                                               *)
(*                                                                         *)
(* Byte strings are sequences of numbers 0..255, text is a sequence of     *)
(* one-character strings.  The three sizes of the archive layout are       *)
(* scaled down so that every file up to the search cap can be enumerated:  *)
(* the boundary is 2 bytes instead of 64, the key 2 bytes instead of 16,   *)
(* the search cap 6 bytes instead of 100e6.                                *)
(***************************************************************************)
EXTENDS Integers, Sequences, FiniteSets, TLC

VARIABLES
    \* ---- the self-image reader
    self,        \* the bytes of the file at os.Args[0]
    rsOut,       \* what readSelf returned for it
    \* ---- the filesystem
    disk,        \* the persistent path and this run's temporary directory
    \* ---- one run of an archive (func extract and its goroutines)
    run,         \* the run's inputs: archive, environment
    se,          \* the selfExtractor fields extractDir, skipExtract, tempDir
    mainPc,      \* position of the main goroutine
    idx,         \* number of tar entries tarRdr.Next has returned
    cleanupQ,    \* cleanupDir: the entries still to remove
    pendingMsg,  \* cleanupAndDie: the message to die with after the clean-up
    fatalMsg,    \* the message of the die() that ended the run
    exit,        \* the value main received from se.exitCode
    exitStatus,  \* the process's exit status, -1 while it has none
    grace,       \* seconds the signal goroutine sleeps, computed by setupSignals
    sigPc,       \* position of the goroutine of setupSignals
    stPc,        \* position of the goroutine se.startup
    stVal,       \* the value se.startup is about to send
    child,       \* the startup program's process
    exitCode,    \* se.exitCode: the senders blocked on the channel, in order
    \* ---- history
    prev,        \* how the previous run ended
    snap,        \* the persistent path as the current run found it
    startedClean, \* the persistent path was absent or empty initially
    elapsedFirst, \* the grace period elapsed while the startup program ran
    sentFirst,    \* the signal goroutine sent before se.startup had
    childCode,    \* the exit code the startup program ended with, -1 if none
    \* ---- the builder
    inFiles,     \* the input paths given on the command line
    out,         \* the file at the output path
    fileIdx,     \* the input paths create has walked
    dest,        \* what running the output extracted
    wrote        \* history: the stub, key and payload create wrote

vars == <<self, rsOut, disk, run, se, mainPc, idx, cleanupQ, pendingMsg,
          fatalMsg, exit, exitStatus, grace, sigPc, stPc, stVal, child, exitCode,
          prev, snap, startedClean, elapsedFirst, sentFirst, childCode,
          inFiles, out, fileIdx, dest, wrote>>

buildVars == <<inFiles, out, fileIdx, dest, wrote>>

\* what a run of func extract leaves alone
rsVars == <<self, rsOut, buildVars>>

runVars == <<disk, run, se, mainPc, idx, cleanupQ, pendingMsg, fatalMsg,
             exit, exitStatus, grace, sigPc, stPc, stVal, child, exitCode,
             prev, snap, startedClean, elapsedFirst, sentFirst, childCode>>

----------------------------------------------------------------------------
(* Bounds of the model *)

\* the longest file readSelf is run on
MaxFileLen == 9

\* the number of runs of an archive over the same persistent path
MaxRuns == 2

----------------------------------------------------------------------------
(* Bytes and text *)

Min(a, b) == IF a < b THEN a ELSE b

\* the byte values files are made of
Bytes == {0, 1, 2}

\* all byte strings of length at most n
BytesUpTo(n) == UNION {[1..k -> Bytes] : k \in 0..n}

\* s[from+1 .. to], the Go slice s[from:to]
Slice(s, from, to) == [i \in 1..(to - from) |-> s[from + i]]

\* bytes.LastIndex in the place of bytes.Index
IndexOf_Last(s, sep) ==
    LET hits == {o \in 0..(Len(s) - Len(sep)) : Slice(s, o, o + Len(sep)) = sep}
    IN  IF hits = {} THEN -1 ELSE CHOOSE o \in hits : \A p \in hits : o >= p

\* bytes.Index: the 0-based offset of the first occurrence of sep in s, or -1
IndexOf(s, sep) ==
    LET hits == {o \in 0..(Len(s) - Len(sep)) : Slice(s, o, o + Len(sep)) = sep}
    IN  IF hits = {} THEN -1 ELSE CHOOSE o \in hits : \A p \in hits : o <= p

hextable == <<"0", "1", "2", "3", "4", "5", "6", "7",
              "8", "9", "a", "b", "c", "d", "e", "f">>

\* hex.EncodeToString: two lowercase digits per byte, high nibble first
EncodeToString(src) ==
    [i \in 1..(2 * Len(src)) |->
        LET b == src[(i + 1) \div 2]
        IN  IF i % 2 = 1 THEN hextable[(b \div 16) + 1] ELSE hextable[(b % 16) + 1]]

WhiteSpace == {" ", "\n", "\t", "\r"}

RECURSIVE TrimLeft(_)
TrimLeft(s) == IF s # <<>> /\ Head(s) \in WhiteSpace THEN TrimLeft(Tail(s)) ELSE s

RECURSIVE TrimRight(_)
TrimRight(s) ==
    IF s # <<>> /\ s[Len(s)] \in WhiteSpace THEN TrimRight(SubSeq(s, 1, Len(s) - 1)) ELSE s

\* strings.TrimSpace
TrimSpace(s) == TrimRight(TrimLeft(s))

----------------------------------------------------------------------------
(* The archive layout and readSelf *)

\* generateBoundary: a constant byte pattern (sha512 of "boundary", whose
\* first and last bytes are not zero); two bytes here
generateBoundary == <<1, 2>>

keyLength == 2

\* scaled so that a payload may hold the boundary below the cap
maxBoundaryOffset == 6

\* the payloads that follow a stub, boundary and key: none, the boundary
\* itself, and every other string up to one byte longer
Payloads == BytesUpTo(Len(generateBoundary) + 1)

\* self.Read(buf) on a regular file: one read of at most len(buf) bytes, which
\* reports io.EOF only when it read nothing
ReadN(file, buflen) == Min(Len(file), buflen)

ReadIsEOF(file, buflen) == ReadN(file, buflen) = 0

\* bufFull as readSelf sets it: true exactly when Read returned io.EOF
BufFull(file) == ReadIsEOF(file, maxBoundaryOffset + keyLength)

\* the array behind buf: the bytes read, then the zeroes make() left
BufArray(file) ==
    [i \in 1..(maxBoundaryOffset + keyLength) |->
        IF i <= ReadN(file, maxBoundaryOffset + keyLength) THEN file[i] ELSE 0]

\* readSelf: (stub, payload, key) as a record; payload is the offset the file
\* is left seeked to, mode "fatal" is die()
readSelf(file) ==
    LET n       == ReadN(file, maxBoundaryOffset + keyLength)
        arr     == BufArray(file)
        buf     == Slice(arr, 0, n)
        bdyOff  == IndexOf(Slice(arr, 0, maxBoundaryOffset), generateBoundary)
        keyOff  == bdyOff + Len(generateBoundary)
        payloadOff == keyOff + keyLength
    IN  IF bdyOff = -1
        THEN IF BufFull(file)
             THEN [mode |-> "fatal", stub |-> <<>>, key |-> <<>>, payloadOff |-> -1]
             ELSE [mode |-> "builder", stub |-> buf, key |-> <<>>, payloadOff |-> -1]
        ELSE [mode |-> "extractor", stub |-> Slice(buf, 0, bdyOff),
              key |-> Slice(arr, keyOff, payloadOff), payloadOff |-> payloadOff]

NoResult == [mode |-> "pending", stub |-> <<>>, key |-> <<>>, payloadOff |-> -1]

----------------------------------------------------------------------------
(* The filesystem: one directory level under the extraction directory *)

keyFileName == ".selfextract.key"

\* the names an extraction directory may hold
Names == {".a", keyFileName, "b", "c"}

\* byte order of the names, the order os.ReadDir lists them in
NameOrder == <<".a", keyFileName, "b", "c">>

NoFile == [kind |-> "none", data |-> <<>>, mode |-> 0, link |-> ""]

RegularFile(data, mode) == [kind |-> "reg", data |-> data, mode |-> mode, link |-> ""]

Directory(mode) == [kind |-> "dir", data |-> <<>>, mode |-> mode, link |-> ""]

SymlinkTo(target) == [kind |-> "symlink", data |-> <<>>, mode |-> 0, link |-> target]

\* os.Create opens with mode 0666
CreateMode == 438

\* the permission extract gives every directory, 0755
DirMode == 493

NoFiles == [n \in Names |-> NoFile]

AbsentDir == [st |-> "absent", files |-> NoFiles]

NotADir == [st |-> "notdir", files |-> NoFiles]

DirWith(files) == [st |-> "dir", files |-> files]

Present(files) == {n \in Names : files[n].kind # "none"}

\* a listing that leaves out the names that start with a dot
ReadDir_NoDotFiles(files) ==
    LET F[i \in 0..Len(NameOrder)] ==
            IF i = 0 THEN <<>>
            ELSE IF NameOrder[i] \in Present(files) \ {".a", keyFileName}
                 THEN Append(F[i - 1], NameOrder[i])
                 ELSE F[i - 1]
    IN  F[Len(NameOrder)]

\* os.ReadDir: the entries of the directory, sorted by filename
ReadDir(files) ==
    LET F[i \in 0..Len(NameOrder)] ==
            IF i = 0 THEN <<>>
            ELSE IF NameOrder[i] \in Present(files) THEN Append(F[i - 1], NameOrder[i])
                 ELSE F[i - 1]
    IN  F[Len(NameOrder)]

----------------------------------------------------------------------------
(* The archives that are run: key and tar entries, in tar order *)

Hdr(name, typeflag, mode, data, linkname) ==
    [name |-> name, typeflag |-> typeflag, mode |-> mode, data |-> data,
     linkname |-> linkname]

KeyA == [i \in 1..keyLength |-> 10]

KeyB == [i \in 1..keyLength |-> 171]

KeyC == [i \in 1..keyLength |-> 255]

Archives ==
    << [key |-> KeyA,
        entries |-> << Hdr(".", "dir", 493, <<>>, ""),
                       Hdr(".a", "reg", 420, <<"h", "i">>, ""),
                       Hdr("b", "dir", 448, <<>>, "") >>],
       [key |-> KeyB,
        entries |-> << Hdr("b", "symlink", 511, <<>>, "c"),
                       Hdr("c", "reg", 493, <<"o", "k">>, "") >>],
       [key |-> KeyC,
        entries |-> << Hdr("c", "reg", 420, <<>>, ""),
                       Hdr("b", "fifo", 420, <<>>, "") >>] >>

ArchiveIds == 1..Len(Archives)

\* what a complete extraction of an entry leaves at its name
Extracted(hdr) ==
    CASE hdr.typeflag = "reg" -> RegularFile(hdr.data, hdr.mode)
      [] hdr.typeflag = "dir" -> Directory(DirMode)
      [] hdr.typeflag = "symlink" -> SymlinkTo(hdr.linkname)
      [] OTHER -> NoFile

\* the entries of an archive that name something below the root
EntriesOf(a) == {i \in 1..Len(Archives[a].entries) : Archives[a].entries[i].name # "."}

\* createKeyFile without its WriteString
KeyFile_Unwritten(key) == RegularFile(<<>>, CreateMode)

\* the marker file as createKeyFile leaves it
KeyFile(key) == RegularFile(EncodeToString(key), CreateMode)

----------------------------------------------------------------------------
(* The environment of a run *)

\* values of SELFEXTRACT_EXTRACT_ONLY
ExtractOnlyEnv == {"", "TRUE", "0"}

\* values of SELFEXTRACT_GRACE_TIMEOUT
GraceEnv == {"", "0", "0.5", "-1", "soon"}

\* values of SELFEXTRACT_DIR: unset, or the persistent path
DirEnv == {"", "persistent"}

ToLower(s) == IF s = "TRUE" THEN "true" ELSE s

isTruthy(s) == ToLower(s) \in {"y", "yes", "true", "1"}

\* strconv.ParseFloat, in tenths of a second
ParseFloat(s) ==
    CASE s = "0" -> [err |-> FALSE, tenths |-> 0]
      [] s = "0.5" -> [err |-> FALSE, tenths |-> 5]
      [] s = "-1" -> [err |-> FALSE, tenths |-> -10]
      [] OTHER -> [err |-> TRUE, tenths |-> 0]

\* seconds of grace after a signal
DefaultGrace == 10

\* grace as setupSignals computes it: time.Duration(graceFl) truncates to
\* whole seconds
GraceOf(graceStr) ==
    IF graceStr # "" /\ ~ParseFloat(graceStr).err /\ ParseFloat(graceStr).tenths >= 0
    THEN ParseFloat(graceStr).tenths \div 10
    ELSE DefaultGrace

----------------------------------------------------------------------------
(* The state before the first run *)

\* what the persistent path may be before the first run
InitPersistent ==
    { AbsentDir,
      NotADir,
      DirWith(NoFiles),
      \* somebody's directory, never extracted to
      DirWith([NoFiles EXCEPT !["c"] = RegularFile(<<"x">>, 420)]),
      \* a marker naming archive 1, written with a trailing newline
      DirWith([NoFiles EXCEPT ![keyFileName] =
                                  RegularFile(EncodeToString(KeyA) \o <<"\n">>, 420),
                              !["c"] = RegularFile(<<"x">>, 420)]),
      \* a marker in upper case
      DirWith([NoFiles EXCEPT ![keyFileName] = RegularFile(<<"0", "A", "0", "A">>, 420),
                              ![".a"] = RegularFile(<<"x">>, 420)]),
      \* a directory where the marker should be
      DirWith([NoFiles EXCEPT ![keyFileName] = Directory(DirMode)]) }

IsClean(d) == d.st = "absent" \/ (d.st = "dir" /\ Present(d.files) = {})

NoRun == [n |-> 0, archive |-> 1, dir |-> "", extractOnly |-> ""]

NoPrev == [archive |-> 0, dir |-> "", ok |-> FALSE, clean |-> FALSE]

NewSe == [extractDir |-> "", skipExtract |-> FALSE, tempDir |-> FALSE]

----------------------------------------------------------------------------
(* The builder's input: the tree under the directory given with -C, and the *)
(* walk create makes of it                                                  *)

\* the number of input paths on the command line
MaxInputs == 2

\* the paths of the tree
SrcPaths == {"a", "d", "d/f", "l"}

\* byte order of the paths
SrcOrder == <<"a", "d", "d/f", "l">>

\* filepath.Dir of a path of the tree
Dir(p) == IF p = "d/f" THEN "d" ELSE "."

\* a file, a directory that is not 0755 with a file in it, a symbolic link
SrcTree ==
    [p \in SrcPaths |->
        CASE p = "a" -> RegularFile(<<"h", "i">>, 420)
          [] p = "d" -> Directory(448)
          [] p = "d/f" -> RegularFile(<<"o", "k">>, 493)
          [] p = "l" -> SymlinkTo("a")]

\* what FILE may be: paths of the tree, one with a trailing separator, the
\* root, and a path that does not exist
InputPaths == {".", "a", "d", "d/", "d/f", "l", "nope"}

InputLists == UNION {[1..k -> InputPaths] : k \in 0..MaxInputs}

\* filepath.Clean on these paths: a trailing separator is dropped
Clean(p) == IF p = "d/" THEN "d" ELSE p

\* os.Lstat under the root: NoFile when nothing is there
Lstat(p) ==
    IF p = "." THEN Directory(DirMode)
    ELSE IF p \in SrcPaths THEN SrcTree[p] ELSE NoFile

\* os.Stat under the root, which follows a symbolic link
Stat(p) == IF Lstat(p).kind = "symlink" THEN Lstat(Lstat(p).link) ELSE Lstat(p)

\* os.ReadDir of a directory of the tree: its entries sorted by filename
ChildrenOf(p) == SelectSeq(SrcOrder, LAMBDA c : Dir(c) = p)

\* fs.walkDir: the path with its info, then, under a directory, each entry
\* with the info of the entry itself
RECURSIVE walkDir(_, _)
walkDir(path, info) ==
    LET sub == ChildrenOf(path)
        F[i \in 0..Len(sub)] ==
            IF i = 0 THEN <<>> ELSE F[i - 1] \o walkDir(sub[i], Lstat(sub[i]))
    IN  <<[path |-> path, info |-> info]>> \o
        (IF info.kind = "dir" THEN F[Len(sub)] ELSE <<>>)

\* fs.WalkDir: the info of the root is that of fs.Stat
WalkDir(root) == walkDir(root, Stat(root))

\* info.Mode() as hdr.Mode keeps it: the permission bits, 0777 for a
\* symbolic link.  The type bits that come with them for a directory or a
\* symbolic link are left out: se.extract reads the mode of regular files
\* only, which have none.
FileMode(info) == IF info.kind = "symlink" THEN 511 ELSE info.mode

\* the tar entry create writes for a visited path: name, mode, type, link
\* target, and for a regular file its content
HeaderOf(v) ==
    Hdr(v.path, v.info.kind, FileMode(v.info),
        IF v.info.kind = "reg" THEN v.info.data ELSE <<>>, v.info.link)

\* the entries the callback of fs.WalkDir writes: all visited paths but "."
HeadersOf(visited) ==
    LET F[i \in 0..Len(visited)] ==
            IF i = 0 THEN <<>>
            ELSE IF visited[i].path = "." THEN F[i - 1]
                 ELSE Append(F[i - 1], HeaderOf(visited[i]))
    IN  F[Len(visited)]

\* the key written before the boundary
Header_KeyFirst(stub, key) == stub \o key \o generateBoundary

\* what create writes before the payload: the stub, the boundary, the key
Header(stub, key) == stub \o generateBoundary \o key

\* generateRandomKey: any keyLength bytes
RandomKeys == [1..keyLength -> Bytes]

\* the mode create gives the archive, 0755
ExecMode == 493

NoOut == [st |-> "absent", bytes |-> <<>>, entries |-> <<>>, mode |-> 0]

\* a file somebody left at the output path
OldOut == [st |-> "file", bytes |-> <<2, 2, 2>>, entries |-> <<>>, mode |-> 420]

(* Extraction of a built archive into an empty directory *)

EmptyTree == [p \in SrcPaths |-> NoFile]

\* one turn of the loop of se.extract on tree t, the disk not failing: the
\* tree after it, and the message of cleanupAndDie if the turn ends in it
ExtractEntry(t, hdr) ==
    LET name  == Clean(hdr.name)
        dir   == Dir(name)
        there == t[name].kind
        dirOk == dir = "." \/ t[dir].kind = "dir"
    IN  CASE name = "." -> [tree |-> t, msg |-> ""]
          [] name # "." /\ hdr.typeflag = "reg" ->
             \* createFile: os.MkdirAll of the parent, then os.Create, which
             \* follows a symbolic link to its target
             LET made   == IF dir # "." /\ t[dir].kind = "none"
                           THEN [t EXCEPT ![dir] = Directory(DirMode)] ELSE t
                 target == IF there = "symlink" THEN t[name].link ELSE name
             IN  IF (dir # "." /\ t[dir].kind \notin {"none", "dir"})
                    \/ made[target].kind = "dir"
                 THEN [tree |-> t, msg |-> "creating file:"]
                 ELSE [tree |-> [made EXCEPT ![target] = RegularFile(hdr.data, hdr.mode)],
                       msg |-> ""]
          [] name # "." /\ hdr.typeflag = "dir" ->
             \* os.Mkdir
             IF there = "none" /\ dirOk
             THEN [tree |-> [t EXCEPT ![name] = Directory(DirMode)], msg |-> ""]
             ELSE [tree |-> t, msg |-> "creating directory"]
          [] name # "." /\ hdr.typeflag = "symlink" ->
             \* os.Symlink
             IF there = "none" /\ dirOk
             THEN [tree |-> [t EXCEPT ![name] = SymlinkTo(hdr.linkname)], msg |-> ""]
             ELSE [tree |-> t, msg |-> "creating symlink"]
          [] OTHER -> [tree |-> t, msg |-> "unsupported file type in tar"]

\* the loop of se.extract over the entries: cleanupAndDie empties the directory
ExtractTree(entries) ==
    LET F[i \in 0..Len(entries)] ==
            IF i = 0 THEN [tree |-> EmptyTree, msg |-> ""]
            ELSE IF F[i - 1].msg # "" THEN F[i - 1]
                 ELSE ExtractEntry(F[i - 1].tree, entries[i])
        end == F[Len(entries)]
    IN  IF end.msg = "" THEN [ok |-> TRUE, tree |-> end.tree, msg |-> ""]
        ELSE [ok |-> FALSE, tree |-> EmptyTree, msg |-> end.msg]

NoDest == [ok |-> FALSE, tree |-> EmptyTree, msg |-> ""]

NoWrote == [stub |-> <<>>, key |-> <<>>, payload |-> <<>>]

\* no build: nothing was given, written or extracted
NoBuild ==
    /\ inFiles = <<>>
    /\ out = NoOut
    /\ fileIdx = 0
    /\ dest = NoDest
    /\ wrote = NoWrote

----------------------------------------------------------------------------

\* no process: nothing runs
IdleProcess ==
    /\ run = NoRun
    /\ se = NewSe
    /\ mainPc = "idle"
    /\ idx = 0
    /\ cleanupQ = <<>>
    /\ pendingMsg = ""
    /\ fatalMsg = ""
    /\ exit = -1
    /\ exitStatus = -1
    /\ grace = DefaultGrace
    /\ sigPc = "off"
    /\ stPc = "idle"
    /\ stVal = 0
    /\ child = "none"
    /\ exitCode = <<>>
    /\ prev = NoPrev
    /\ elapsedFirst = FALSE
    /\ sentFirst = FALSE
    /\ childCode = -1

Init ==
    /\ self = <<>>
    /\ rsOut = NoResult
    /\ \E p \in InitPersistent :
          /\ disk = [persistent |-> p, temp |-> AbsentDir]
          /\ snap = p
          /\ startedClean = IsClean(p)
    /\ IdleProcess
    /\ NoBuild

----------------------------------------------------------------------------
(* Shorthands of the actions *)

mainLocals == <<idx, cleanupQ, pendingMsg>>

race == <<elapsedFirst, sentFirst>>

goroutines == <<grace, sigPc, stPc, stVal, child, exitCode, race>>

history == <<prev, snap, startedClean, childCode>>

Terminated == mainPc \in {"exited", "died", "killed"}

Alive == mainPc \notin {"idle", "exited", "died", "killed"}

\* die: log.Fatalln, which exits the process with status 1
die(msg) ==
    /\ mainPc' = "died"
    /\ fatalMsg' = msg
    /\ exitStatus' = 1

Goto(pc) ==
    /\ mainPc' = pc
    /\ UNCHANGED <<fatalMsg, exitStatus>>

SetFile(dir, name, f) == disk' = [disk EXCEPT ![dir].files[name] = f]

\* cleanupDir up to its first os.RemoveAll.  after = "" when prepareExtractDir
\* calls it, and the message to die with when cleanupAndDie does.
cleanupDir(dir, after) ==
    \/ \* os.ReadDir fails
       /\ die(IF after = "" THEN "cleaning extraction dir"
                            ELSE "got error while cleaning up")
       /\ UNCHANGED <<cleanupQ, pendingMsg>>
    \/ /\ ReadDir(disk[dir].files) = <<>>
       /\ IF after = "" THEN Goto("extract") ELSE die(after)
       /\ UNCHANGED <<cleanupQ, pendingMsg>>
    \/ /\ ReadDir(disk[dir].files) # <<>>
       /\ Goto("cleanupDir")
       /\ cleanupQ' = ReadDir(disk[dir].files)
       /\ pendingMsg' = after

cleanupAndDie(dir, msg) == cleanupDir(dir, msg)

----------------------------------------------------------------------------
(* A run: func extract, the main goroutine *)

\* the archive is executed: readSelf found a payload and main calls extract
StartRun ==
    /\ mainPc \in {"idle", "exited", "died", "killed"}
    /\ run.n < MaxRuns
    /\ \E a \in ArchiveIds, d \in DirEnv, eo \in ExtractOnlyEnv :
          run' = [n |-> run.n + 1, archive |-> a, dir |-> d, extractOnly |-> eo]
    /\ prev' = IF mainPc = "idle" THEN NoPrev
               ELSE [archive |-> run.archive, dir |-> run.dir,
                     ok |-> mainPc = "exited", clean |-> IsClean(snap)]
    /\ snap' = disk.persistent
    /\ disk' = [disk EXCEPT !.temp = AbsentDir]
    /\ se' = NewSe
    /\ mainPc' = "setupSignals"
    /\ idx' = 0
    /\ cleanupQ' = <<>>
    /\ pendingMsg' = ""
    /\ fatalMsg' = ""
    /\ exit' = -1
    /\ exitStatus' = -1
    /\ grace' = DefaultGrace
    /\ sigPc' = "off"
    /\ stPc' = "idle"
    /\ stVal' = 0
    /\ child' = "none"
    /\ exitCode' = <<>>
    /\ elapsedFirst' = FALSE
    /\ sentFirst' = FALSE
    /\ childCode' = -1
    /\ UNCHANGED <<startedClean, rsVars>>

\* se.setupSignals: computes the grace period, registers the signals and starts
\* the goroutine that waits for one
setupSignals ==
    /\ mainPc = "setupSignals"
    /\ \E graceStr \in GraceEnv : grace' = GraceOf(graceStr)
    /\ sigPc' = "wait"
    /\ Goto("prepareExtractDir")
    /\ UNCHANGED <<disk, run, se, exit, mainLocals, stPc, stVal, child, exitCode,
                   race, history, rsVars>>

\* se.prepareExtractDir making a directory of a path that is not one
prepareExtractDir_OverNonDir ==
    /\ mainPc = "prepareExtractDir"
    /\ UNCHANGED <<run, exit, idx, goroutines, history, rsVars>>
    /\ IF run.dir = ""
       THEN \/ \* os.MkdirTemp
               /\ disk' = [disk EXCEPT !.temp = DirWith(NoFiles)]
               /\ se' = [se EXCEPT !.extractDir = "temp", !.tempDir = TRUE]
               /\ Goto("extract")
               /\ UNCHANGED <<cleanupQ, pendingMsg>>
            \/ /\ die("creating temporary extraction directory")
               /\ UNCHANGED <<disk, se, cleanupQ, pendingMsg>>
       ELSE LET d == disk[run.dir]
                keyFile == d.files[keyFileName]
            IN  CASE d.st = "absent" ->
                     \* os.Stat fails, os.MkdirAll
                     \/ /\ disk' = [disk EXCEPT ![run.dir] = DirWith(NoFiles)]
                        /\ se' = [se EXCEPT !.extractDir = run.dir]
                        /\ Goto("extract")
                        /\ UNCHANGED <<cleanupQ, pendingMsg>>
                     \/ /\ die("creating extraction directory")
                        /\ se' = [se EXCEPT !.extractDir = run.dir]
                        /\ UNCHANGED <<disk, cleanupQ, pendingMsg>>
                  [] d.st = "notdir" ->
                     /\ disk' = [disk EXCEPT ![run.dir] = DirWith(NoFiles)]
                     /\ se' = [se EXCEPT !.extractDir = run.dir]
                     /\ Goto("extract")
                     /\ UNCHANGED <<cleanupQ, pendingMsg>>
                  [] OTHER ->
                     \/ \* os.ReadDir fails
                        /\ die("listing extraction dir")
                        /\ se' = [se EXCEPT !.extractDir = run.dir]
                        /\ UNCHANGED <<disk, cleanupQ, pendingMsg>>
                     \/ /\ ReadDir(d.files) = <<>>
                        /\ se' = [se EXCEPT !.extractDir = run.dir]
                        /\ Goto("extract")
                        /\ UNCHANGED <<disk, cleanupQ, pendingMsg>>
                     \/ /\ ReadDir(d.files) # <<>>
                        /\ keyFile.kind = "none"
                        /\ die("opening key file (extraction dir must be empty or contain a valid key file)")
                        /\ se' = [se EXCEPT !.extractDir = run.dir]
                        /\ UNCHANGED <<disk, cleanupQ, pendingMsg>>
                     \/ \* io.ReadAll fails: the key file is a directory
                        /\ keyFile.kind = "dir"
                        /\ die("reading key file (extraction dir must be empty or contain a valid key file)")
                        /\ se' = [se EXCEPT !.extractDir = run.dir]
                        /\ UNCHANGED <<disk, cleanupQ, pendingMsg>>
                     \/ /\ keyFile.kind \notin {"none", "dir"}
                        /\ EncodeToString(Archives[run.archive].key) = TrimSpace(keyFile.data)
                        /\ se' = [se EXCEPT !.extractDir = run.dir, !.skipExtract = TRUE]
                        /\ Goto("extract")
                        /\ UNCHANGED <<disk, cleanupQ, pendingMsg>>
                     \/ /\ keyFile.kind \notin {"none", "dir"}
                        /\ EncodeToString(Archives[run.archive].key) # TrimSpace(keyFile.data)
                        /\ se' = [se EXCEPT !.extractDir = run.dir]
                        /\ cleanupDir(run.dir, "")
                        /\ UNCHANGED disk

\* se.prepareExtractDir, up to its return, its die or the first removal of
\* its cleanupDir
prepareExtractDir ==
    /\ mainPc = "prepareExtractDir"
    /\ UNCHANGED <<run, exit, idx, goroutines, history, rsVars>>
    /\ IF run.dir = ""
       THEN \/ \* os.MkdirTemp
               /\ disk' = [disk EXCEPT !.temp = DirWith(NoFiles)]
               /\ se' = [se EXCEPT !.extractDir = "temp", !.tempDir = TRUE]
               /\ Goto("extract")
               /\ UNCHANGED <<cleanupQ, pendingMsg>>
            \/ /\ die("creating temporary extraction directory")
               /\ UNCHANGED <<disk, se, cleanupQ, pendingMsg>>
       ELSE LET d == disk[run.dir]
                keyFile == d.files[keyFileName]
            IN  CASE d.st = "absent" ->
                     \* os.Stat fails, os.MkdirAll
                     \/ /\ disk' = [disk EXCEPT ![run.dir] = DirWith(NoFiles)]
                        /\ se' = [se EXCEPT !.extractDir = run.dir]
                        /\ Goto("extract")
                        /\ UNCHANGED <<cleanupQ, pendingMsg>>
                     \/ /\ die("creating extraction directory")
                        /\ se' = [se EXCEPT !.extractDir = run.dir]
                        /\ UNCHANGED <<disk, cleanupQ, pendingMsg>>
                  [] d.st = "notdir" ->
                     /\ die("extraction directory not a directory")
                     /\ se' = [se EXCEPT !.extractDir = run.dir]
                     /\ UNCHANGED <<disk, cleanupQ, pendingMsg>>
                  [] OTHER ->
                     \/ \* os.ReadDir fails
                        /\ die("listing extraction dir")
                        /\ se' = [se EXCEPT !.extractDir = run.dir]
                        /\ UNCHANGED <<disk, cleanupQ, pendingMsg>>
                     \/ /\ ReadDir(d.files) = <<>>
                        /\ se' = [se EXCEPT !.extractDir = run.dir]
                        /\ Goto("extract")
                        /\ UNCHANGED <<disk, cleanupQ, pendingMsg>>
                     \/ /\ ReadDir(d.files) # <<>>
                        /\ keyFile.kind = "none"
                        /\ die("opening key file (extraction dir must be empty or contain a valid key file)")
                        /\ se' = [se EXCEPT !.extractDir = run.dir]
                        /\ UNCHANGED <<disk, cleanupQ, pendingMsg>>
                     \/ \* io.ReadAll fails: the key file is a directory
                        /\ keyFile.kind = "dir"
                        /\ die("reading key file (extraction dir must be empty or contain a valid key file)")
                        /\ se' = [se EXCEPT !.extractDir = run.dir]
                        /\ UNCHANGED <<disk, cleanupQ, pendingMsg>>
                     \/ /\ keyFile.kind \notin {"none", "dir"}
                        /\ EncodeToString(Archives[run.archive].key) = TrimSpace(keyFile.data)
                        /\ se' = [se EXCEPT !.extractDir = run.dir, !.skipExtract = TRUE]
                        /\ Goto("extract")
                        /\ UNCHANGED <<disk, cleanupQ, pendingMsg>>
                     \/ /\ keyFile.kind \notin {"none", "dir"}
                        /\ EncodeToString(Archives[run.archive].key) # TrimSpace(keyFile.data)
                        /\ se' = [se EXCEPT !.extractDir = run.dir]
                        /\ cleanupDir(run.dir, "")
                        /\ UNCHANGED disk

\* one turn of cleanupDir's loop, os.RemoveAll of the next entry; after the
\* last one cleanupDir returns, to prepareExtractDir or to cleanupAndDie
cleanupDirStep ==
    /\ mainPc = "cleanupDir"
    /\ UNCHANGED <<run, se, exit, idx, goroutines, history, rsVars>>
    /\ \/ \* os.RemoveAll fails
          /\ die(IF pendingMsg = "" THEN "cleaning extraction dir"
                                    ELSE "got error while cleaning up")
          /\ UNCHANGED <<disk, cleanupQ, pendingMsg>>
       \/ /\ SetFile(se.extractDir, Head(cleanupQ), NoFile)
          /\ cleanupQ' = Tail(cleanupQ)
          /\ IF Tail(cleanupQ) # <<>>
             THEN Goto("cleanupDir") /\ UNCHANGED pendingMsg
             ELSE /\ pendingMsg' = ""
                  /\ IF pendingMsg = "" THEN Goto("extract") ELSE die(pendingMsg)

\* se.extract with the test of skipExtract inverted
extractBegin_SkipInverted ==
    /\ mainPc = "extract"
    /\ UNCHANGED <<disk, run, se, exit, mainLocals, goroutines, history, rsVars>>
    /\ IF ~se.skipExtract
       THEN Goto("goStartup")
       ELSE \/ Goto("next")
            \/ die("creating zstd reader")

\* se.extract up to its loop: the skip, and getTarReader
extractBegin ==
    /\ mainPc = "extract"
    /\ UNCHANGED <<disk, run, se, exit, mainLocals, goroutines, history, rsVars>>
    /\ IF se.skipExtract
       THEN Goto("goStartup")
       ELSE \/ Goto("next")
            \/ die("creating zstd reader")

\* one turn of the loop of se.extract: tarRdr.Next and the entry it returns; of
\* a regular file, its creation
extractNext ==
    /\ mainPc = "next"
    /\ UNCHANGED <<run, se, exit, goroutines, history, rsVars>>
    /\ LET entries == Archives[run.archive].entries
           dir == se.extractDir
       IN  \/ \* the payload is damaged here
              /\ die("reading embedded tar")
              /\ UNCHANGED <<disk, mainLocals>>
           \/ \* io.EOF
              /\ idx = Len(entries)
              /\ Goto("createKeyFile")
              /\ UNCHANGED <<disk, mainLocals>>
           \/ /\ idx < Len(entries)
              /\ idx' = idx + 1
              /\ LET hdr == entries[idx + 1]
                     there == disk[dir].files[hdr.name].kind
                 IN  IF hdr.name = "."
                     THEN Goto("next") /\ UNCHANGED <<disk, cleanupQ, pendingMsg>>
                     ELSE CASE hdr.typeflag = "reg" ->
                               \/ /\ there # "dir"
                                  /\ SetFile(dir, hdr.name, RegularFile(<<>>, CreateMode))
                                  /\ Goto("copy")
                                  /\ UNCHANGED <<cleanupQ, pendingMsg>>
                               \/ /\ cleanupAndDie(dir, "creating file:")
                                  /\ UNCHANGED disk
                            [] hdr.typeflag = "dir" ->
                               \/ /\ there = "none"
                                  /\ SetFile(dir, hdr.name, Directory(DirMode))
                                  /\ Goto("next")
                                  /\ UNCHANGED <<cleanupQ, pendingMsg>>
                               \/ /\ cleanupAndDie(dir, "creating directory")
                                  /\ UNCHANGED disk
                            [] hdr.typeflag = "symlink" ->
                               \/ /\ there = "none"
                                  /\ SetFile(dir, hdr.name, SymlinkTo(hdr.linkname))
                                  /\ Goto("next")
                                  /\ UNCHANGED <<cleanupQ, pendingMsg>>
                               \/ /\ cleanupAndDie(dir, "creating symlink")
                                  /\ UNCHANGED disk
                            [] OTHER ->
                               /\ cleanupAndDie(dir, "unsupported file type in tar")
                               /\ UNCHANGED disk

\* io.Copy of the entry's content into the file
extractCopy ==
    /\ mainPc = "copy"
    /\ UNCHANGED <<run, se, exit, idx, goroutines, history, rsVars>>
    /\ LET hdr == Archives[run.archive].entries[idx]
       IN  \/ /\ SetFile(se.extractDir, hdr.name, RegularFile(hdr.data, CreateMode))
              /\ Goto("chmod")
              /\ UNCHANGED <<cleanupQ, pendingMsg>>
           \/ /\ cleanupAndDie(se.extractDir, "writing file:")
              /\ UNCHANGED disk

\* f.Chmod with the entry's mode, and f.Close
extractChmod ==
    /\ mainPc = "chmod"
    /\ UNCHANGED <<run, se, exit, idx, goroutines, history, rsVars>>
    /\ LET hdr == Archives[run.archive].entries[idx]
       IN  \/ /\ SetFile(se.extractDir, hdr.name, RegularFile(hdr.data, hdr.mode))
              /\ Goto("next")
              /\ UNCHANGED <<cleanupQ, pendingMsg>>
           \/ /\ cleanupAndDie(se.extractDir, "setting mode of file:")
              /\ UNCHANGED disk

\* se.createKeyFile: os.Create of the marker
createKeyFile ==
    /\ mainPc = "createKeyFile"
    /\ UNCHANGED <<run, se, exit, mainLocals, goroutines, history, rsVars>>
    /\ \/ /\ SetFile(se.extractDir, keyFileName, RegularFile(<<>>, CreateMode))
          /\ Goto("writeKeyFile")
       \/ /\ die("creating key file:")
          /\ UNCHANGED disk

\* se.createKeyFile: f.WriteString of the key in hex, and f.Close
writeKeyFile ==
    /\ mainPc = "writeKeyFile"
    /\ UNCHANGED <<run, se, exit, mainLocals, goroutines, history, rsVars>>
    /\ \/ /\ SetFile(se.extractDir, keyFileName, KeyFile(Archives[run.archive].key))
          /\ \/ Goto("goStartup")
             \/ die("closing key file:")
       \/ /\ die("writing key file:")
          /\ UNCHANGED disk

\* go se.startup()
goStartup ==
    /\ mainPc = "goStartup"
    /\ stPc' = "begin"
    /\ Goto("recv")
    /\ UNCHANGED <<disk, run, se, exit, mainLocals, grace, sigPc, stVal, child,
                   exitCode, race, history, rsVars>>

\* main receiving from se.exitCode between two entries of the archive as well
recvExitCode_InLoop ==
    /\ mainPc \in {"recv", "next"}
    /\ exitCode # <<>>
    /\ exit' = Head(exitCode).val
    /\ exitCode' = Tail(exitCode)
    /\ IF Head(exitCode).from = "signal"
       THEN sigPc' = "done" /\ UNCHANGED stPc
       ELSE stPc' = "done" /\ UNCHANGED sigPc
    /\ Goto("cleanup")
    /\ UNCHANGED <<disk, run, se, mainLocals, grace, stVal, child, race, history, rsVars>>

\* exit := <-se.exitCode: the first sender blocked on the channel hands its
\* value over and goes on
recvExitCode ==
    /\ mainPc = "recv"
    /\ exitCode # <<>>
    /\ exit' = Head(exitCode).val
    /\ exitCode' = Tail(exitCode)
    /\ IF Head(exitCode).from = "signal"
       THEN sigPc' = "done" /\ UNCHANGED stPc
       ELSE stPc' = "done" /\ UNCHANGED sigPc
    /\ Goto("cleanup")
    /\ UNCHANGED <<disk, run, se, mainLocals, grace, stVal, child, race, history, rsVars>>

\* se.cleanup ending the startup program before the directory is removed
cleanup_KillChild ==
    /\ mainPc = "cleanup"
    /\ disk' = IF se.tempDir THEN [disk EXCEPT ![se.extractDir] = AbsentDir] ELSE disk
    /\ child' = IF child = "running" THEN "signaled" ELSE child
    /\ Goto("osExit")
    /\ UNCHANGED <<run, se, exit, mainLocals, grace, sigPc, stPc, stVal, exitCode,
                   race, history, rsVars>>

\* se.cleanup removing the extraction directory whether temporary or not
cleanup_Always ==
    /\ mainPc = "cleanup"
    /\ disk' = [disk EXCEPT ![se.extractDir] = AbsentDir]
    /\ Goto("osExit")
    /\ UNCHANGED <<run, se, exit, mainLocals, goroutines, history, rsVars>>

\* se.cleanup
cleanup ==
    /\ mainPc = "cleanup"
    /\ disk' = IF se.tempDir THEN [disk EXCEPT ![se.extractDir] = AbsentDir] ELSE disk
    /\ Goto("osExit")
    /\ UNCHANGED <<run, se, exit, mainLocals, goroutines, history, rsVars>>

\* os.Exit(exit): the status the parent sees is the low 8 bits
osExit ==
    /\ mainPc = "osExit"
    /\ mainPc' = "exited"
    /\ exitStatus' = exit % 256
    /\ UNCHANGED <<disk, run, se, exit, fatalMsg, mainLocals, goroutines, history,
                   rsVars>>

----------------------------------------------------------------------------
(* The goroutine of setupSignals *)

\* SIGINT, SIGABRT or SIGQUIT arrives and the goroutine takes it from c; with
\* a grace of zero it does not sleep
signal ==
    /\ Alive
    /\ sigPc = "wait"
    /\ sigPc' = IF grace # 0 THEN "sleep" ELSE "send"
    /\ elapsedFirst' = (grace = 0 /\ child = "running")
    /\ UNCHANGED sentFirst
    /\ UNCHANGED <<disk, run, se, mainPc, fatalMsg, exit, exitStatus, mainLocals,
                   grace, stPc, stVal, child, exitCode, history, rsVars>>

\* time.Sleep(grace) returns
graceElapsed ==
    /\ Alive
    /\ sigPc = "sleep"
    /\ sigPc' = "send"
    /\ elapsedFirst' = (child = "running")
    /\ UNCHANGED sentFirst
    /\ UNCHANGED <<disk, run, se, mainPc, fatalMsg, exit, exitStatus, mainLocals,
                   grace, stPc, stVal, child, exitCode, history, rsVars>>

\* the signal goroutine sending 1 instead of 2
signalSend_One ==
    /\ Alive
    /\ sigPc = "send"
    /\ sigPc' = "blocked"
    /\ exitCode' = Append(exitCode, [from |-> "signal", val |-> 1])
    /\ sentFirst' = (stPc \notin {"blocked", "done"})
    /\ UNCHANGED elapsedFirst
    /\ UNCHANGED <<disk, run, se, mainPc, fatalMsg, exit, exitStatus, mainLocals,
                   grace, stPc, stVal, child, history, rsVars>>

\* se.exitCode <- 2: the goroutine blocks on the channel until main receives
signalSend ==
    /\ Alive
    /\ sigPc = "send"
    /\ sigPc' = "blocked"
    /\ exitCode' = Append(exitCode, [from |-> "signal", val |-> 2])
    /\ sentFirst' = (stPc \notin {"blocked", "done"})
    /\ UNCHANGED elapsedFirst
    /\ UNCHANGED <<disk, run, se, mainPc, fatalMsg, exit, exitStatus, mainLocals,
                   grace, stPc, stVal, child, history, rsVars>>

----------------------------------------------------------------------------
(* The goroutine se.startup *)

\* how the startup program may end: with an exit code, or killed by a signal
ChildEnds ==
    { [exited |-> TRUE, code |-> 0], [exited |-> TRUE, code |-> 3],
      [exited |-> FALSE, code |-> 0] }

\* (*exec.ExitError).ExitCode: the exit code, -1 if a signal ended the process
ExitCodeOf(ps) == IF ps.exited THEN ps.code ELSE -1

\* se.startup sending 1 after every failure of the startup program
SentAfterRun_One(ps) == IF ps.exited /\ ps.code = 0 THEN 0 ELSE 1

\* what se.startup sends once cmd.Run has returned err for a program that ran:
\* err is nil after exit code 0, an *exec.ExitError otherwise
SentAfterRun(ps) == IF ps.exited /\ ps.code = 0 THEN 0 ELSE ExitCodeOf(ps)

\* se.startup up to cmd.Run having started the program
startupBegin ==
    /\ Alive
    /\ stPc = "begin"
    /\ IF isTruthy(run.extractOnly)
       THEN stPc' = "send" /\ stVal' = 0 /\ UNCHANGED child
       ELSE \/ \* the program is started
               /\ stPc' = "wait"
               /\ child' = "running"
               /\ UNCHANGED stVal
            \/ \* it is missing or cannot be executed: err is no *exec.ExitError
               /\ stPc' = "send"
               /\ stVal' = 1
               /\ UNCHANGED child
    /\ UNCHANGED <<disk, run, se, mainPc, fatalMsg, exit, exitStatus, mainLocals,
                   grace, sigPc, exitCode, race, history, rsVars>>

\* the startup program ends and cmd.Run returns
childExit ==
    /\ Alive
    /\ stPc = "wait"
    /\ child = "running"
    /\ \E ps \in ChildEnds :
          /\ child' = IF ps.exited THEN "exited" ELSE "signaled"
          /\ stVal' = SentAfterRun(ps)
          /\ childCode' = IF ps.exited THEN ps.code ELSE -1
    /\ stPc' = "send"
    /\ UNCHANGED <<disk, run, se, mainPc, fatalMsg, exit, exitStatus, mainLocals,
                   grace, sigPc, exitCode, race, prev, snap, startedClean, rsVars>>

\* se.exitCode <- the value
startupSend ==
    /\ Alive
    /\ stPc = "send"
    /\ stPc' = "blocked"
    /\ exitCode' = Append(exitCode, [from |-> "startup", val |-> stVal])
    /\ UNCHANGED <<disk, run, se, mainPc, fatalMsg, exit, exitStatus, mainLocals,
                   grace, sigPc, stVal, child, race, history, rsVars>>

----------------------------------------------------------------------------
(* The process is killed: SIGKILL, SIGTERM, power loss *)

kill ==
    /\ Alive
    /\ mainPc' = "killed"
    /\ UNCHANGED <<disk, run, se, fatalMsg, exit, exitStatus, mainLocals,
                   goroutines, history, rsVars>>

----------------------------------------------------------------------------
(* Specifications *)

MainStep ==
    \/ setupSignals
    \/ prepareExtractDir
    \/ cleanupDirStep
    \/ extractBegin
    \/ extractNext
    \/ extractCopy
    \/ extractChmod
    \/ createKeyFile
    \/ writeKeyFile
    \/ goStartup
    \/ recvExitCode
    \/ cleanup
    \/ osExit

Next ==
    \/ StartRun
    \/ setupSignals
    \/ prepareExtractDir
    \/ cleanupDirStep
    \/ extractBegin
    \/ extractNext
    \/ extractCopy
    \/ extractChmod
    \/ createKeyFile
    \/ writeKeyFile
    \/ goStartup
    \/ recvExitCode
    \/ cleanup
    \/ osExit
    \/ signal
    \/ graceElapsed
    \/ signalSend
    \/ startupBegin
    \/ childExit
    \/ startupSend
    \/ kill

Spec == Init /\ [][Next]_vars

\* One run of an archive, over every state the persistent path may be in
StartFirstRun == run.n = 0 /\ StartRun

NextOneRun ==
    \/ StartFirstRun
    \/ MainStep
    \/ signal
    \/ graceElapsed
    \/ signalSend
    \/ startupBegin
    \/ childExit
    \/ startupSend
    \/ kill

\* The Go scheduler runs every goroutine that can run, and the timer fires.
\* Nothing obliges the startup program to end, a signal to arrive or the
\* process to be killed.
FairSpec ==
    /\ Init
    /\ [][NextOneRun]_vars
    /\ WF_vars(MainStep)
    /\ WF_vars(MainStep)
    /\ WF_vars(graceElapsed)
    /\ WF_vars(signalSend)
    /\ WF_vars(startupBegin)
    /\ WF_vars(startupSend)

(* readSelf on every file up to MaxFileLen bytes *)

\* the file of a running program is never empty
InitReadSelf ==
    /\ self \in BytesUpTo(MaxFileLen) \ {<<>>}
    /\ rsOut = NoResult
    /\ disk = [persistent |-> AbsentDir, temp |-> AbsentDir]
    /\ snap = AbsentDir
    /\ startedClean = TRUE
    /\ IdleProcess
    /\ NoBuild

ReadSelf ==
    /\ rsOut.mode = "pending"
    /\ rsOut' = readSelf(self)
    /\ UNCHANGED <<self, runVars, buildVars>>

NextReadSelf == ReadSelf

SpecReadSelf == InitReadSelf /\ [][NextReadSelf]_vars

----------------------------------------------------------------------------
(* The builder: main reads itself, finds no boundary and calls create; the  *)
(* archive create wrote is then executed                                    *)

\* the files the tool may be: all those readSelf reads whole
Tools == BytesUpTo(maxBoundaryOffset) \ {<<>>}

\* create does nothing with the stub but write it, and nothing with the input
\* paths but walk them: each is varied with the other fixed
InitBuild ==
    /\ \/ self = <<0>> /\ inFiles \in InputLists
       \/ self \in Tools /\ inFiles = <<".">>
    /\ out \in {NoOut, OldOut}
    /\ rsOut = NoResult
    /\ fileIdx = 0
    /\ dest = NoDest
    /\ wrote = NoWrote
    /\ disk = [persistent |-> AbsentDir, temp |-> AbsentDir]
    /\ snap = AbsentDir
    /\ startedClean = TRUE
    /\ IdleProcess

\* create opening the output before it looks at the input paths
createBegin_OpenFirst ==
    /\ mainPc = "idle"
    /\ rsOut.mode = "builder"
    /\ \/ /\ out' = [st |-> "file", bytes |-> <<>>, entries |-> <<>>,
                     mode |-> IF out.st = "file" THEN out.mode ELSE CreateMode]
          /\ IF inFiles = <<>> THEN die("no files to archive") ELSE Goto("header")
       \/ /\ die("opening output file:")
          /\ UNCHANGED out
    /\ UNCHANGED <<self, rsOut, inFiles, fileIdx, dest, wrote,
                   disk, run, se, exit, mainLocals, goroutines, history>>

\* main calls create, which refuses an empty list and then opens the output
\* path, truncating a file that is there
createBegin ==
    /\ mainPc = "idle"
    /\ rsOut.mode = "builder"
    /\ IF inFiles = <<>>
       THEN /\ die("no files to archive")
            /\ UNCHANGED out
       ELSE \/ /\ out' = [st |-> "file", bytes |-> <<>>, entries |-> <<>>,
                          mode |-> IF out.st = "file" THEN out.mode ELSE CreateMode]
               /\ Goto("header")
            \/ /\ die("opening output file:")
               /\ UNCHANGED out
    /\ UNCHANGED <<self, rsOut, inFiles, fileIdx, dest, wrote,
                   disk, run, se, exit, mainLocals, goroutines, history>>

\* create writes the stub readSelf returned, the boundary and a new key
createHeader ==
    /\ mainPc = "header"
    /\ \/ \E key \in RandomKeys :
             /\ out' = [out EXCEPT !.bytes = Header(rsOut.stub, key)]
             /\ wrote' = [stub |-> rsOut.stub, key |-> key, payload |-> <<>>]
             /\ Goto("walk")
       \/ /\ die("writing stub to output file:")
          /\ UNCHANGED <<out, wrote>>
    /\ UNCHANGED <<self, rsOut, inFiles, fileIdx, dest,
                   disk, run, se, exit, mainLocals, goroutines, history>>

\* one turn of create's loop over the input paths: fs.WalkDir of the path
\* and an entry for each path visited
createWalk ==
    /\ mainPc = "walk"
    /\ fileIdx < Len(inFiles)
    /\ LET file == Clean(inFiles[fileIdx + 1])
       IN  IF Stat(file).kind = "none"
           THEN /\ die("opening input file")
                /\ UNCHANGED <<out, fileIdx>>
           ELSE /\ out' = [out EXCEPT !.entries = @ \o HeadersOf(WalkDir(file))]
                /\ fileIdx' = fileIdx + 1
                /\ Goto("walk")
    /\ UNCHANGED <<self, rsOut, inFiles, dest, wrote,
                   disk, run, se, exit, mainLocals, goroutines, history>>

\* create closes the tar and zstd writers, which leaves the compressed
\* payload in the file, and makes the file executable
createClose ==
    /\ mainPc = "walk"
    /\ fileIdx = Len(inFiles)
    /\ \E p \in Payloads :
          /\ out' = [out EXCEPT !.bytes = @ \o p, !.mode = ExecMode]
          /\ wrote' = [wrote EXCEPT !.payload = p]
    /\ Goto("built")
    /\ UNCHANGED <<self, rsOut, inFiles, fileIdx, dest,
                   disk, run, se, exit, mainLocals, goroutines, history>>

\* the archive is executed: its main is about to read itself
execOutput ==
    /\ mainPc = "built"
    /\ self' = out.bytes
    /\ rsOut' = NoResult
    /\ Goto("started")
    /\ UNCHANGED <<buildVars, disk, run, se, exit, mainLocals, goroutines, history>>

\* readSelf found a payload: main calls extract, into an empty directory.
\* The payload decodes to the entries create wrote when the stream is all of
\* it from its first byte on.
extractOutput ==
    /\ mainPc = "started"
    /\ rsOut.mode = "extractor"
    /\ IF Slice(self, Min(rsOut.payloadOff, Len(self)), Len(self)) # wrote.payload
       THEN /\ die("reading embedded tar")
            /\ UNCHANGED dest
       ELSE /\ dest' = ExtractTree(out.entries)
            /\ IF dest'.ok THEN Goto("extracted") ELSE die(dest'.msg)
    /\ UNCHANGED <<self, rsOut, inFiles, out, fileIdx, wrote,
                   disk, run, se, exit, mainLocals, goroutines, history>>

NextBuild ==
    \/ ReadSelf
    \/ createBegin
    \/ createHeader
    \/ createWalk
    \/ createClose
    \/ execOutput
    \/ extractOutput

SpecBuild == InitBuild /\ [][NextBuild]_vars

----------------------------------------------------------------------------
(* Properties *)

KeyOf(a) == Archives[a].key

\* every entry of archive a is in the directory as a complete extraction
\* leaves it
AllExtracted(d, a) ==
    \A i \in EntriesOf(a) :
        d.files[Archives[a].entries[i].name] = Extracted(Archives[a].entries[i])

\* the directory holds a marker with the hex encoding of the key of archive a
MarkerOf(d, a) ==
    /\ d.st = "dir"
    /\ d.files[keyFileName].kind = "reg"
    /\ d.files[keyFileName].data = EncodeToString(KeyOf(a))

\* the directory after a complete extraction of archive a into an empty one
ExpectedFiles(a) ==
    [n \in Names |->
        IF n = keyFileName THEN KeyFile(KeyOf(a))
        ELSE IF \E i \in EntriesOf(a) : Archives[a].entries[i].name = n
             THEN Extracted(Archives[a].entries[
                      CHOOSE i \in EntriesOf(a) : Archives[a].entries[i].name = n])
             ELSE NoFile]

\* C1: over a persistent path that was absent or empty initially, and in the
\* temporary directory, in every state (those a kill or a fatal error leaves
\* behind included): a marker that holds the hex encoding of an archive's key
\* implies that every entry of that archive is in the directory.
C1_MarkerImpliesComplete ==
    startedClean =>
        \A dir \in {"persistent", "temp"} : \A a \in ArchiveIds :
            MarkerOf(disk[dir], a) => AllExtracted(disk[dir], a)

\* the messages cleanupAndDie and die are given in the loop of se.extract
ExtractLoopMsgs ==
    {"reading embedded tar", "creating file:", "writing file:",
     "setting mode of file:", "creating directory", "creating symlink",
     "unsupported file type in tar"}

\* C2: after a fatal failure at any step of the extraction loop, the
\* destination directory holds no entry.
C2_FailureLeavesNothing ==
    (mainPc = "died" /\ fatalMsg \in ExtractLoopMsgs) =>
        Present(disk[se.extractDir].files) = {}

\* the run found the persistent path a non-empty directory without a marker
FoundWithoutMarker ==
    /\ run.dir = "persistent"
    /\ snap.st = "dir"
    /\ Present(snap.files) # {}
    /\ keyFileName \notin Present(snap.files)

\* C3: a run that finds the persistent directory non-empty and without a
\* marker does not abort in prepareExtractDir: it erases the contents and goes
\* on to extract.
C3_NoMarkerIsCleaned ==
    FoundWithoutMarker =>
        /\ ~(mainPc = "died" /\
             fatalMsg = "opening key file (extraction dir must be empty or contain a valid key file)")
        /\ (mainPc = "extract" => Present(disk.persistent.files) = {})

\* C7: when the value main uses came from se.startup and the startup program
\* could not be started, or was ended by a signal, the process exits with 1.
C7_GenericFailureIsOne ==
    (/\ mainPc = "exited"
     /\ stPc = "done"
     /\ ~isTruthy(run.extractOnly)
     /\ child \in {"none", "signaled"}) => exitStatus = 1

\* C9: when the process has exited or died after creating a temporary
\* extraction directory, the directory is gone.
C9_TempDirDeleted ==
    (mainPc \in {"exited", "died"} /\ se.tempDir) => disk.temp.st = "absent"

\* the boundary does not occur in the first maxBoundaryOffset bytes of the file
NotFound(file) ==
    IndexOf(Slice(file, 0, Min(Len(file), maxBoundaryOffset)), generateBoundary) = -1

\* C10: when the boundary is not found, readSelf returns the whole file as the
\* stub, in builder mode, if the file is no longer than the cap plus the key
\* length, and is fatal if it is longer.
C10_NotFound ==
    (rsOut.mode # "pending" /\ NotFound(self)) =>
        IF Len(self) <= maxBoundaryOffset + keyLength
        THEN rsOut.mode = "builder" /\ rsOut.stub = self
        ELSE rsOut.mode = "fatal"

\* this run is of the archive the previous run extracted, successfully, into
\* the persistent path it found absent or empty
SameArchiveAgain ==
    /\ run.dir = "persistent"
    /\ prev.ok
    /\ prev.dir = "persistent"
    /\ prev.clean
    /\ prev.archive = run.archive

\* C4: the second run of the same archive over the same persistent directory
\* writes nothing there (the directory stays as the first run left it), sets
\* skipExtract, and starts se.startup; only a failure to list the directory
\* can end it before.
C4_SecondRunIdempotent ==
    SameArchiveAgain =>
        /\ disk.persistent = snap
        /\ (fatalMsg # "" => fatalMsg = "listing extraction dir")
        /\ ((se.extractDir # "" /\ fatalMsg = "") => se.skipExtract)
        /\ (mainPc \in {"recv", "cleanup", "osExit", "exited"} => stPc # "idle")

\* a second run of the same archive has exited after the startup program ran
C4_Witness ==
    /\ SameArchiveAgain
    /\ mainPc = "exited"
    /\ se.skipExtract
    /\ child = "exited"
    /\ AllExtracted(disk.persistent, run.archive)

\* the run found, in the persistent directory, a marker file whose trimmed
\* content is not the hex encoding of its key
FoundOtherMarker ==
    /\ run.dir = "persistent"
    /\ snap.st = "dir"
    /\ snap.files[keyFileName].kind \notin {"none", "dir"}
    /\ TrimSpace(snap.files[keyFileName].data) # EncodeToString(KeyOf(run.archive))

\* C5: a run that finds a marker with another key never reuses the directory;
\* the directory is empty when extraction begins, and after a successful run
\* it holds exactly the entries of the archive and the marker with its key.
C5_OtherKeyReextracts ==
    FoundOtherMarker =>
        /\ ~se.skipExtract
        /\ ((mainPc = "extract" \/ (mainPc = "next" /\ idx = 0))
               => Present(disk.persistent.files) = {})
        /\ (mainPc = "exited" => disk.persistent.files = ExpectedFiles(run.archive))

\* archive 2 was run successfully over a directory that held a marker with
\* another key and a file the archive does not hold
C5_Witness ==
    /\ FoundOtherMarker
    /\ run.archive = 2
    /\ ".a" \in Present(snap.files)
    /\ mainPc = "exited"
    /\ disk.persistent.files = ExpectedFiles(2)

\* the extraction directory holds all of the archive and its marker
ExtractionComplete ==
    /\ AllExtracted(disk[se.extractDir], run.archive)
    /\ MarkerOf(disk[se.extractDir], run.archive)

\* C6: se.startup is started only when main is past se.extract without a fatal
\* error, with the extraction complete (or skipped by reuse); after a fatal
\* error it is never started.
C6_StartupAfterExtraction ==
    /\ (stPc # "idle" =>
           /\ mainPc \in {"recv", "cleanup", "osExit", "exited", "killed"}
           /\ fatalMsg = "")
    /\ ((stPc # "idle" /\ disk[se.extractDir].st = "dir") =>
           (se.skipExtract \/ ExtractionComplete))
    /\ (mainPc = "died" => (stPc = "idle" /\ child = "none"))

\* the startup program runs after a complete extraction that was not skipped
C6_Witness ==
    /\ child = "running"
    /\ mainPc = "recv"
    /\ ~se.skipExtract
    /\ ExtractionComplete

SignalReceived == sigPc \in {"sleep", "send", "blocked", "done"}

\* the process exits with 2 whenever the grace period elapsed while the
\* startup program was running
C8_TwoAfterGrace == (mainPc = "exited" /\ elapsedFirst) => exitStatus = 2

\* C8 as claimed: after a signal the process terminates, and it exits with 2
\* if the startup program had not finished when the grace period elapsed.
C8_Original == (SignalReceived ~> Terminated) /\ []C8_TwoAfterGrace

\* the process exits with 2, the startup program left running, whenever the
\* signal goroutine sent before se.startup had
C8_TwoWhenSentFirst ==
    (mainPc = "exited" /\ sentFirst) =>
        /\ exit = 2
        /\ exitStatus = 2
        /\ (stPc = "wait" => child = "running")

\* C8 amended: after a signal the process terminates even if the startup
\* program never ends, and it exits with 2, without waiting for the startup
\* program or ending it, if se.startup had not yet sent its exit code when
\* the signal goroutine, the grace period over, sent 2.
C8_Amended == (SignalReceived ~> Terminated) /\ []C8_TwoWhenSentFirst

\* the process has exited with 2 while the startup program runs on
C8_Witness ==
    /\ mainPc = "exited"
    /\ sentFirst
    /\ exitStatus = 2
    /\ child = "running"

\* C13: in a run that exits without the signal goroutine having taken a signal:
\* the exit status is the exit code of the startup program if it ended with
\* one (0 included); with the extract-only variable truthy the startup program
\* is never started and the exit status is 0, after an extraction that is
\* complete (or was skipped by reuse); and one value was sent on se.exitCode,
\* by se.startup, none being left.
C13_ExitCodeWithoutSignal ==
    /\ (isTruthy(run.extractOnly) => (child = "none" /\ childCode = -1))
    /\ ((mainPc = "exited" /\ sigPc = "wait") =>
           /\ (child = "exited" => exitStatus = childCode)
           /\ (isTruthy(run.extractOnly) =>
                  /\ exitStatus = 0
                  /\ (~se.tempDir => (se.skipExtract \/ ExtractionComplete)))
           /\ stPc = "done"
           /\ exitCode = <<>>)

\* without a signal, the process has exited with the 3 the startup program
\* ended with
C13_Witness ==
    /\ mainPc = "exited"
    /\ sigPc = "wait"
    /\ child = "exited"
    /\ childCode = 3
    /\ exitStatus = 3

\* C14: no step removes a persistent directory: one that exists still exists
\* after the step, whichever way the run ends (only entries of it are removed),
\* and se.cleanup of a run over a persistent path leaves the directory and
\* its contents as they are.
C14_PersistentDirKept ==
    [][/\ (disk.persistent.st = "dir" => disk'.persistent.st = "dir")
       /\ ((run.dir = "persistent" /\ mainPc = "cleanup") => disk' = disk)]_vars

\* se.cleanup has run over a persistent directory that holds an extraction
C14_Witness ==
    /\ run.dir = "persistent"
    /\ mainPc = "osExit"
    /\ ~se.skipExtract
    /\ ExtractionComplete

\* C15: when readSelf finds the boundary in a file that holds the whole key,
\* it returns the same stub, key and payload offset for the file's first
\* payloadOff bytes followed by any payload: by none, and by one that holds
\* the boundary (below the cap or above it).
C15_SplitIgnoresPayload ==
    (rsOut.mode = "extractor" /\ Len(self) >= rsOut.payloadOff) =>
        \A p \in Payloads :
            readSelf(SubSeq(self, 1, rsOut.payloadOff) \o p) = rsOut

\* readSelf has split a file whose payload holds the boundary below the cap
C15_Witness ==
    /\ rsOut.mode = "extractor"
    /\ Len(self) >= rsOut.payloadOff + Len(generateBoundary)
    /\ rsOut.payloadOff + Len(generateBoundary) <= maxBoundaryOffset
    /\ Slice(self, rsOut.payloadOff, rsOut.payloadOff + Len(generateBoundary))
           = generateBoundary

\* C16: in every interleaving of se.startup and the signal goroutine, at most
\* one of them completes its send on se.exitCode (the other stays blocked or
\* never sends); main is past the receive only after one did, and runs
\* se.cleanup then; and the status the process exits with is the value
\* received, the 2 of the signal goroutine or the value se.startup sent.
C16_OneValueDecides ==
    /\ ~(sigPc = "done" /\ stPc = "done")
    /\ (mainPc \in {"cleanup", "osExit", "exited"} =>
           /\ (sigPc = "done" \/ stPc = "done")
           /\ exit = (IF sigPc = "done" THEN 2 ELSE stVal)
           /\ exitCode \in {<<>>, <<[from |-> "signal", val |-> 2]>>,
                             <<[from |-> "startup", val |-> stVal]>>})
    /\ (mainPc = "exited" => exitStatus = exit)

\* the run found nothing at the persistent path
FoundMissing == run.dir = "persistent" /\ snap.st = "absent"

\* the run found, at the persistent path, something that is not a directory
FoundNotADir == run.dir = "persistent" /\ snap.st = "notdir"

\* C17 as claimed: once prepareExtractDir has acted on a persistent path that
\* did not exist or was not a directory, the path is a directory and the run
\* has not ended in prepareExtractDir (unless os.MkdirAll itself failed).
C17_Original ==
    ((FoundMissing \/ FoundNotADir) /\ se.extractDir # "") =>
        /\ fatalMsg # "extraction directory not a directory"
        /\ (fatalMsg # "creating extraction directory" => disk.persistent.st = "dir")

\* C17 amended: once prepareExtractDir has acted on a persistent path that did
\* not exist, the path is a directory and the run goes on to extract, unless
\* os.MkdirAll failed; on a path that exists and is not a directory, it has
\* died with "extraction directory not a directory", status 1, and the path
\* is as it was.
C17_Amended ==
    /\ ((FoundMissing /\ se.extractDir # "") =>
           IF fatalMsg = "creating extraction directory"
           THEN mainPc = "died" /\ disk.persistent.st = "absent"
           ELSE /\ disk.persistent.st = "dir"
                /\ fatalMsg # "extraction directory not a directory")
    /\ ((FoundNotADir /\ se.extractDir # "") =>
           /\ mainPc = "died"
           /\ fatalMsg = "extraction directory not a directory"
           /\ exitStatus = 1
           /\ disk.persistent = snap)

\* prepareExtractDir has refused a persistent path that is not a directory
C17_Witness ==
    /\ FoundNotADir
    /\ se.extractDir = "persistent"
    /\ mainPc = "died"
    /\ disk.persistent.st = "notdir"

\* C18: the startup program runs for as long as se.startup waits for it: no
\* step of the controller ends it or signals it, whether main has received
\* the 2 of the signal goroutine, run se.cleanup or exited; and a process that
\* has exited on the signal goroutine's value has exited with 2, its
\* temporary directory removed.
C18_StartupProgramLeftRunning ==
    /\ (stPc = "wait" => child = "running")
    /\ ((mainPc = "exited" /\ sigPc = "done") =>
           /\ exit = 2
           /\ exitStatus = 2
           /\ (se.tempDir => disk.temp.st = "absent"))

\* the process has received 2, removed its temporary directory and exited,
\* and the startup program it started is running
C18_Witness ==
    /\ mainPc = "exited"
    /\ sigPc = "done"
    /\ exit = 2
    /\ se.tempDir
    /\ disk.temp.st = "absent"
    /\ stPc = "wait"
    /\ child = "running"

\* main is in se.setupSignals, se.prepareExtractDir or se.extract
BeforeStartup ==
    mainPc \in {"setupSignals", "prepareExtractDir", "cleanupDir", "extract", "next",
                "copy", "chmod", "createKeyFile", "writeKeyFile", "goStartup"}

\* the 2 of the signal goroutine is received only once se.extract has returned
C19_TwoAfterExtract ==
    /\ (BeforeStartup => (sigPc # "done" /\ exit = -1))
    /\ (sigPc = "done" => fatalMsg = "")

\* C19 as claimed: a signal never interrupts the extraction, and a run that
\* has exited with 2 has left its persistent directory with all of the archive
\* and the marker, or has removed its temporary directory.
C19_Original ==
    /\ C19_TwoAfterExtract
    /\ ((mainPc = "exited" /\ exitStatus = 2) =>
           IF se.tempDir THEN disk.temp.st = "absent" ELSE ExtractionComplete)

\* C19 amended: a signal never interrupts the extraction, and a run that has
\* exited with 2 has left its persistent directory with all of the archive
\* and the marker, or, when it reused the directory, as it found it; or it has
\* removed its temporary directory.
C19_Amended ==
    /\ C19_TwoAfterExtract
    /\ ((mainPc = "exited" /\ exitStatus = 2) =>
           IF se.tempDir THEN disk.temp.st = "absent"
           ELSE IF se.skipExtract THEN disk.persistent = snap
           ELSE ExtractionComplete)

\* with a grace of zero, the signal goroutine is blocked sending its 2 while
\* main copies an entry of the archive
C19_Witness ==
    /\ mainPc = "copy"
    /\ grace = 0
    /\ sigPc = "blocked"
    /\ exitCode = <<[from |-> "signal", val |-> 2]>>

\* the paths the archive holds an entry of
ArchivedPaths == {out.entries[i].name : i \in 1..Len(out.entries)} \ {"."}

\* C11: for every non-empty list of input paths of the tree, extracting the
\* archive create built does not fail, and leaves, at the path of every entry,
\* what the entry records (a regular file with the content and mode of the
\* source, a symbolic link with its target, a directory with mode 0755), and
\* nothing at other paths but the directories above the entries.
C11_RoundTrip ==
    /\ ~(mainPc = "died" /\ fatalMsg \in ExtractLoopMsgs)
    /\ (mainPc = "extracted" =>
           /\ dest.ok
           /\ \A i \in 1..Len(out.entries) :
                 out.entries[i].name # "." =>
                     dest.tree[out.entries[i].name] = Extracted(out.entries[i])
           /\ \A p \in SrcPaths :
                 dest.tree[p].kind # "none" =>
                     p \in ArchivedPaths \cup {Dir(q) : q \in ArchivedPaths})

\* what readSelf returns for stub, boundary, key and payload in this order
SplitOf(w) ==
    [mode |-> "extractor", stub |-> w.stub, key |-> w.key,
     payloadOff |-> Len(w.stub) + Len(generateBoundary) + keyLength]

\* readSelf has read the tool itself, which holds no boundary
ReadStubAlone ==
    /\ mainPc = "idle"
    /\ rsOut.mode # "pending"
    /\ IndexOf(self, generateBoundary) = -1
    /\ Len(self) <= maxBoundaryOffset

\* readSelf has read the archive create wrote
ReadArchive ==
    /\ mainPc = "started"
    /\ rsOut.mode # "pending"
    /\ IndexOf(wrote.stub, generateBoundary) = -1

\* C12 as claimed: of the tool alone readSelf returns builder mode and the
\* file as the stub; of the archive create wrote with a stub shorter than the
\* cap, it returns the stub, the key and the offset of the payload, which are
\* those create wrote, and all of the payload follows that offset.
C12_Original ==
    /\ (ReadStubAlone => (rsOut.mode = "builder" /\ rsOut.stub = self))
    /\ ((ReadArchive /\ Len(wrote.stub) < maxBoundaryOffset) =>
           /\ rsOut = SplitOf(wrote)
           /\ rsOut.key = Slice(self, Len(wrote.stub) + Len(generateBoundary),
                                rsOut.payloadOff)
           /\ Slice(self, rsOut.payloadOff, Len(self)) = wrote.payload)

\* C12 amended: the same, of the archive create wrote with a stub so short
\* that the boundary after it ends within the cap.
C12_Amended ==
    /\ (ReadStubAlone => (rsOut.mode = "builder" /\ rsOut.stub = self))
    /\ ((ReadArchive /\ Len(wrote.stub) + Len(generateBoundary) <= maxBoundaryOffset) =>
           /\ rsOut = SplitOf(wrote)
           /\ rsOut.key = Slice(self, Len(wrote.stub) + Len(generateBoundary),
                                rsOut.payloadOff)
           /\ Slice(self, rsOut.payloadOff, Len(self)) = wrote.payload)

\* readSelf has split an archive whose boundary ends at the cap and whose
\* payload is the boundary again
C12_Witness ==
    /\ ReadArchive
    /\ Len(wrote.stub) + Len(generateBoundary) = maxBoundaryOffset
    /\ wrote.payload = generateBoundary
    /\ rsOut = SplitOf(wrote)

\* C20: in a build with no input path, no step changes the file at the output
\* path or creates one, and the step that leaves main is the fatal error "no
\* files to archive", status 1.
C20_EmptyListLeavesOutput ==
    [][inFiles = <<>> =>
          /\ out' = out
          /\ (mainPc' # mainPc =>
                 /\ mainPc' = "died"
                 /\ fatalMsg' = "no files to archive"
                 /\ exitStatus' = 1)]_vars

\* create has refused an empty list with a file at the output path, which is
\* as it was
C20_Witness ==
    /\ inFiles = <<>>
    /\ mainPc = "died"
    /\ fatalMsg = "no files to archive"
    /\ out = OldOut

====
